---- MODULE Spec2Model ----
(***************************************************************************)
(* A model of the Taiwan stock screener: the history store of DataFetcher  *)
(* (primary provider FinMind, fallback TWSE/TPEx monthly endpoints), the   *)
(* ScreeningPipeline runner with its two screener chains, and the          *)
(* orchestrator of src/main.py.                                            *)
(*                                                                         *)
(* Three specifications share the variables:                               *)
(*   SpecHist  - calls of DataFetcher.get_historical_data                  *)
(*   SpecPipe  - one ScreeningPipeline.run                                 *)
(*   SpecMain  - one invocation of main()                                  *)
(* Each leaves the other components in their state after construction.    *)
(***************************************************************************)
EXTENDS Integers, Sequences, FiniteSets, TLC

VARIABLES
    \* ---- DataFetcher (src/src/data/fetcher.py) ----
    finmind_available,      \* self._finmind_available
    finmind_fail_count,     \* self._finmind_fail_count
    hist_data_cache,        \* self._hist_data_cache: cache_key -> candle sequence
    histCall,               \* the last get_historical_data call, as observed
    quotaSeen,              \* some primary call has answered status 402
    \* ---- ScreeningPipeline (src/src/pipeline.py) ----
    mode,                   \* self.mode
    pipePc,                 \* position of run(): "start", "stages", "done"
    stageIdx,               \* index of the next screener of self.screeners
    df,                     \* the current batch
    stats,                  \* self.stats
    step_results,           \* self.step_results: step_number -> [name, data]
    fed,                    \* per executed stage, the batch it was called on
    handed,                 \* per executed stage, the batch it returned
    quotes,                 \* the batch get_all_stocks_realtime returned
    runResult,              \* the value run() returned
    \* ---- main() (src/src/main.py) ----
    args,                   \* the parsed command line
    now,                    \* [weekday, time]: what datetime.now() answers
    mainPc,                 \* position of main()
    effects,                \* side effects so far (a set of tags)
    screening,              \* what run_screener met: gate, quotes, results
    outcome,                \* how the try block of main ended
    exitCode,               \* process exit status, -1 while running
    \* ---- DataFetcher.get_all_stocks_realtime ----
    quotePc,                \* position of get_all_stocks_realtime
    twseDf,                 \* twse_df: rows of the listed venue
    tpexDf,                 \* tpex_df: rows of the OTC venue
    queried,                \* the quote paths queried so far, with their row counts
    snapshot,               \* the frame get_all_stocks_realtime returned
    \* ---- BullishPoolTracker (src/src/bullish_pool.py) ----
    today,                  \* the calendar day, as a day number
    history,                \* history.json: "stocks", id -> entry
    pools,                  \* pool_<date>.json files: day -> (id -> consecutive_days)
    updates,                \* update_pool calls so far
    poolCall,               \* the last update_pool call, as observed
    \* ---- ForeignSentimentAnalyzer (src/src/foreign_sentiment.py) ----
    spot_data,              \* what _fetch_spot_data answers: [avail, value]
    futures_data,           \* what _fetch_futures_data answers: [avail, value]
    sentPc,                 \* "idle", "start" or "done"
    sentiment,              \* the dict analyze() returned
    \* ---- one screener called on one batch (src/src/screeners/filters.py) ----
    stageName,              \* the class of the screener
    stageIn,                \* the batch handed to screen()
    stageOuts,              \* per row, what the history lookup gave
    stageOut,               \* the batch screen() returned
    stagePc,                \* "idle", "start" or "done"
    \* ---- PullbackScreener on one row (src/src/screeners/filters.py) ----
    pbRow,                  \* price, the four MAs now and slope_lookback days ago, recent high
    pbResult,               \* [is_valid, support_ma] of the row
    pbPc,                   \* "idle", "start" or "done"
    \* ---- DataFetcher._get_historical_from_twse, its month loop ----
    twNow,                  \* datetime.now(): [year, month, day]
    twDays,                 \* the days argument
    twMonths,               \* the <<year, month>> of each monthly query, in order
    twPc,                   \* "idle", "start" or "done"
    \* ---- DataFetcher.get_index_ma_status ----
    idxMean,                \* period -> mean of the last closes, in thousandths
    idxStatus,              \* the dict returned
    idxPc,                  \* "idle", "start" or "done"
    \* ---- InstitutionalTracker (src/src/institutional_tracker.py) ----
    trackToday,             \* the calendar day
    trackStocks,            \* institutional history.json: "stocks", id -> entry
    trackCall               \* the analysis_results of the last update_tracking call

histVars == <<finmind_available, finmind_fail_count, hist_data_cache, histCall, quotaSeen>>
pipeVars == <<mode, pipePc, stageIdx, df, stats, step_results, fed, handed, quotes, runResult>>
mainVars == <<args, now, mainPc, effects, screening, outcome, exitCode>>
quoteVars == <<quotePc, twseDf, tpexDf, queried, snapshot>>
poolVars == <<today, history, pools, updates, poolCall>>
sentVars == <<spot_data, futures_data, sentPc, sentiment>>
stageVars == <<stageName, stageIn, stageOuts, stageOut, stagePc>>
pullVars == <<pbRow, pbResult, pbPc>>
twseVars == <<twNow, twDays, twMonths, twPc>>
idxVars == <<idxMean, idxStatus, idxPc>>
trackVars == <<trackToday, trackStocks, trackCall>>
vars == <<histVars, pipeVars, mainVars, quoteVars, poolVars, sentVars, stageVars,
          pullVars, twseVars, idxVars, trackVars>>

(***************************************************************************)
(* Sequence helpers (pandas operations used by the code).                  *)
(***************************************************************************)

\* DataFrame.tail(n): the last n rows (all of them when there are fewer).
Tail_n(s, n) ==
    IF Len(s) <= n THEN s ELSE SubSeq(s, Len(s) - n + 1, Len(s))

\* All sequences over S of length at most n.
SeqsUpTo(S, n) == UNION {[1..k -> S] : k \in 0..n}

Range(s) == {s[i] : i \in DOMAIN s}

\* pd.concat of a list of frames.
RECURSIVE Concat(_)
Concat(ss) == IF ss = <<>> THEN <<>> ELSE Head(ss) \o Concat(Tail(ss))

(***************************************************************************)
(* History store: DataFetcher.get_historical_data and its two providers.   *)
(* A candle is represented by its date (an integer yyyymmdd, which orders  *)
(* as the zero-padded ISO strings of the code do); the OHLCV columns ride  *)
(* along unchanged through every operation modelled here.                  *)
(***************************************************************************)

\* Bounds of the model.
MaxResp == 2            \* rows in one primary-provider response
MaxMonthRows == 1       \* rows in one monthly fallback response
MaxFails == 4           \* cap on the consecutive-failure counter

\* self._max_fail_count
max_fail_count == 3

Ids == {"2330"}
Days == {1, 2}
IsoDates == {20240105, 20240207}

\* The fallback endpoints answer dates in ROC years, yyy/mm/dd.
RocDates == {d - 19110000 : d \in IsoDates}

\* year_ce = int(date_parts[0]) + 1911, month and day kept.
RocToIso(r) == r + 19110000

NoCall == [id |-> "", days |-> 0, cached |-> FALSE, primary |-> FALSE,
           fallback |-> FALSE, quotaBefore |-> FALSE, result |-> <<>>]

\* A cache key that leaves the number of days out.
cache_key_without_days(id, days) == <<id, 0>>

\* cache_key = f"{stock_id}_{days}"
cache_key(id, days) == <<id, days>>

\* What the primary provider may answer to one request.
PrimaryResponses ==
    {[kind |-> k, data |-> <<>>] : k \in {"quota", "error", "exception"}}
    \cup {[kind |-> "ok", data |-> d] : d \in SeqsUpTo(IsoDates, MaxResp)}

\* The counter is capped: no further failing answer once it stands at MaxFails.
PrimaryResponsesAt(fc) ==
    IF fc < MaxFails THEN PrimaryResponses
    ELSE {r \in PrimaryResponses : r.kind = "ok" /\ r.data # <<>>}

\* _get_historical_from_finmind: the frame returned and the new counter and flag.
FromFinmind(resp, days, fc, av) ==
    CASE resp.kind = "quota" ->
            [df |-> <<>>, fail_count |-> fc + 1,
             available |-> IF fc + 1 >= max_fail_count THEN FALSE ELSE av]
      [] resp.kind \in {"error", "exception"} ->
            [df |-> <<>>, fail_count |-> fc + 1, available |-> av]
      [] resp.kind = "ok" /\ resp.data = <<>> ->
            [df |-> <<>>, fail_count |-> fc, available |-> av]
      [] OTHER ->
            [df |-> Tail_n(resp.data, days), fail_count |-> 0, available |-> av]

\* months_needed = max(2, days // 20 + 1)
months_needed(days) == IF (days \div 20) + 1 > 2 THEN (days \div 20) + 1 ELSE 2

\* One monthly response of the fallback (TWSE, or TPEx when TWSE is empty),
\* already parsed: its ROC dates converted to ISO.
ParseMonthly(rows) == [i \in DOMAIN rows |-> RocToIso(rows[i])]

MonthlyResponses(days) ==
    [1..months_needed(days) -> SeqsUpTo(RocDates, MaxMonthRows)]

\* DataFrame.drop_duplicates(subset=["date"]): the first row of each date stays.
RECURSIVE DropDuplicates(_)
DropDuplicates(s) ==
    IF s = <<>> THEN <<>>
    ELSE LET front == SubSeq(s, 1, Len(s) - 1)
             last == s[Len(s)]
         IN IF last \in Range(front) THEN DropDuplicates(front)
            ELSE Append(DropDuplicates(front), last)

\* DataFrame.sort_values("date") on a frame whose dates are pairwise distinct.
RECURSIVE SortValues(_)
SortValues(s) ==
    IF s = <<>> THEN <<>>
    ELSE LET m == CHOOSE x \in Range(s) : \A y \in Range(s) : x <= y
             rest == SelectSeq(s, LAMBDA x : x # m)
         IN <<m>> \o SortValues(rest)

\* _get_historical_from_twse: concat of the non-empty months, deduplicate, sort, tail.
FromTwse(months, days) ==
    LET all_data == SelectSeq([i \in DOMAIN months |-> ParseMonthly(months[i])],
                              LAMBDA m : m # <<>>)
    IN IF all_data = <<>> THEN <<>>
       ELSE Tail_n(SortValues(DropDuplicates(Concat(all_data))), days)

\* The primary provider consulted whatever the flag says.
ConsultsPrimaryAlways(available) == TRUE

\* if self._finmind_available: df = self._get_historical_from_finmind(...)
ConsultsPrimary(available) == available

\* Every result stored, the empty ones too.
MemoizeAlways(cache, key, result) ==
    [k \in DOMAIN cache \cup {key} |-> IF k = key THEN result ELSE cache[k]]

\* if not df.empty: self._hist_data_cache[cache_key] = df
Memoize(cache, key, result) ==
    IF result # <<>>
    THEN [k \in DOMAIN cache \cup {key} |-> IF k = key THEN result ELSE cache[k]]
    ELSE cache

\* get_historical_data(stock_id, days), one whole call.
GetHistoricalData ==
    \E id \in Ids, days \in Days :
        LET key == cache_key(id, days) IN
        IF key \in DOMAIN hist_data_cache
        THEN /\ histCall' = [id |-> id, days |-> days, cached |-> TRUE,
                             primary |-> FALSE, fallback |-> FALSE,
                             quotaBefore |-> quotaSeen,
                             result |-> hist_data_cache[key]]
             /\ UNCHANGED <<finmind_available, finmind_fail_count,
                            hist_data_cache, quotaSeen>>
        ELSE \E resp \in (IF ConsultsPrimary(finmind_available)
                          THEN PrimaryResponsesAt(finmind_fail_count)
                          ELSE {[kind |-> "none", data |-> <<>>]}) :
             LET p == IF ConsultsPrimary(finmind_available)
                      THEN FromFinmind(resp, days, finmind_fail_count, finmind_available)
                      ELSE [df |-> <<>>, fail_count |-> finmind_fail_count,
                            available |-> finmind_available]
             IN \E months \in (IF p.df = <<>> THEN MonthlyResponses(days) ELSE {<<>>}) :
                LET result == IF p.df = <<>> THEN FromTwse(months, days) ELSE p.df
                IN /\ finmind_fail_count' = p.fail_count
                   /\ finmind_available' = p.available
                   /\ quotaSeen' = (quotaSeen \/ resp.kind = "quota")
                   /\ hist_data_cache' = Memoize(hist_data_cache, key, result)
                   /\ histCall' = [id |-> id, days |-> days, cached |-> FALSE,
                                   primary |-> ConsultsPrimary(finmind_available),
                                   fallback |-> (p.df = <<>>),
                                   quotaBefore |-> quotaSeen,
                                   result |-> result]

\* DataFetcher.__init__
HistInit ==
    /\ finmind_available = TRUE
    /\ finmind_fail_count = 0
    /\ hist_data_cache = <<>>
    /\ histCall = NoCall
    /\ quotaSeen = FALSE


(***************************************************************************)
(* Batches.  A row is a function from column names to values; a batch      *)
(* (DataFrame) is a sequence of rows.  Prices are in tenths, change_pct in *)
(* hundredths of a percent, volume in lots, market_cap in 10^8.            *)
(***************************************************************************)

\* numpy.nan in a numeric column
NaN == 0 - 1

\* df[col] = val on one row: the column is added, or overwritten when present.
SetCol(row, col, val) ==
    [c \in DOMAIN row \cup {col} |-> IF c = col THEN val ELSE row[c]]

\* df[mask].reset_index(drop=True)
Filter(batch, keep(_)) == SelectSeq(batch, keep)

Quote(id, name, price, open, high, low, volume, prev, chg, market) ==
    [stock_id |-> id, stock_name |-> name, price |-> price, open |-> open,
     high |-> high, low |-> low, volume |-> volume, prev_close |-> prev,
     change_pct |-> chg, market |-> market]

\* Rows the two venues may answer (scenario S1 of the specification, plus one).
QA == Quote("1101", "A", 400, 385, 405, 384, 1200, 380, 526, "TWSE")
QB == Quote("2330", "B", 6000, 6000, 6000, 6000, 9000, 6000, 0, "TWSE")
QC == Quote("9999", "C", 100, 96, 100, 95, 2, 95, 526, "TPEx")
QD == Quote("6488", "D", 214, 201, 215, 200, 700, 200, 700, "TPEx")

TwseAnswers == {<<>>, <<QA>>, <<QA, QB>>}
TpexAnswers == {<<>>, <<QC>>, <<QC, QD>>}

\* A snapshot that is dropped as soon as one venue has no rows.
get_all_stocks_realtime_either(twse_df, tpex_df) ==
    IF twse_df = <<>> \/ tpex_df = <<>> THEN <<>> ELSE twse_df \o tpex_df

\* get_all_stocks_realtime: both venues, concatenated; empty only if both are.
get_all_stocks_realtime(twse_df, tpex_df) ==
    IF twse_df = <<>> /\ tpex_df = <<>> THEN <<>> ELSE twse_df \o tpex_df

(***************************************************************************)
(* The quote source: DataFetcher.get_all_stocks_realtime and the intraday  *)
(* and post-close paths of the two venues.  A raw item carries the ticker, *)
(* the price and either yesterday's close (intraday, field y) or the       *)
(* signed change (post-close); prices are in tenths.                       *)
(***************************************************************************)

MaxQuoteRows == 1       \* rows in one answer of a quote endpoint

\* n / d rounded to the nearest integer, halves to even (d > 0).
RoundDiv(n, d) ==
    LET q == n \div d
        r == n % d
    IN IF 2 * r < d THEN q
       ELSE IF 2 * r > d THEN q + 1
       ELSE IF q % 2 = 0 THEN q ELSE q + 1

\* round(((price - prev_close) / prev_close * 100) if prev_close > 0 else 0, 2),
\* in hundredths of a percent.
ChangePct(price, prev_close) ==
    IF prev_close > 0 THEN RoundDiv(10000 * (price - prev_close), prev_close) ELSE 0

QuoteRow(id, price, prev_close, market) ==
    Quote(id, id, price, price, price, price, 1000, prev_close,
          ChangePct(price, prev_close), market)

\* The rows of an intraday answer: items without a positive price are skipped.
IntradayRows(items, market) ==
    LET ok == SelectSeq(items, LAMBDA it : it.z > 0)
    IN [i \in DOMAIN ok |-> QuoteRow(ok[i].c, ok[i].z, ok[i].y, market)]

\* The rows of a post-close answer: prev_close = price - change_val.
PostCloseRows(items, market) ==
    [i \in DOMAIN items |->
        QuoteRow(items[i].c, items[i].price, items[i].price - items[i].change, market)]

IntradayItems(ids) ==
    {[c |-> id, z |-> pz[1], y |-> pz[2]] :
        id \in ids, pz \in {<<400, 380>>, <<6000, 6000>>, <<214, 200>>, <<50, 0>>, <<0, 95>>}}

PostCloseItems(ids) ==
    {[c |-> id, price |-> pc[1], change |-> pc[2]] :
        id \in ids, pc \in {<<400, 20>>, <<100, 5>>, <<285, 0 - 15>>, <<50, 50>>}}

TwseIds == {"1101"}
TpexIds == {"9999"}

\* _fetch_twse_realtime, first half: the intraday path.
FetchTwseIntraday ==
    /\ quotePc = "twse"
    /\ \E items \in SeqsUpTo(IntradayItems(TwseIds), MaxQuoteRows) :
         LET rows == IntradayRows(items, "TWSE") IN
         /\ twseDf' = rows
         /\ quotePc' = IF rows # <<>> THEN "tpex" ELSE "twse_postclose"
    /\ queried' = Append(queried, [path |-> "twse_intraday", rows |-> Len(twseDf')])
    /\ UNCHANGED <<tpexDf, snapshot>>

\* _fetch_twse_realtime, second half: the post-close endpoint.
FetchTwsePostClose ==
    /\ quotePc = "twse_postclose"
    /\ \E items \in SeqsUpTo(PostCloseItems(TwseIds), MaxQuoteRows) :
         twseDf' = PostCloseRows(items, "TWSE")
    /\ quotePc' = "tpex"
    /\ queried' = Append(queried, [path |-> "twse_postclose", rows |-> Len(twseDf')])
    /\ UNCHANGED <<tpexDf, snapshot>>

\* _fetch_tpex_realtime, first half: the intraday path.
FetchTpexIntraday ==
    /\ quotePc = "tpex"
    /\ \E items \in SeqsUpTo(IntradayItems(TpexIds), MaxQuoteRows) :
         LET rows == IntradayRows(items, "TPEx") IN
         /\ tpexDf' = rows
         /\ quotePc' = IF rows # <<>> THEN "concat" ELSE "tpex_postclose"
    /\ queried' = Append(queried, [path |-> "tpex_intraday", rows |-> Len(tpexDf')])
    /\ UNCHANGED <<twseDf, snapshot>>

\* _fetch_tpex_realtime, second half: the post-close endpoint.
FetchTpexPostClose ==
    /\ quotePc = "tpex_postclose"
    /\ \E items \in SeqsUpTo(PostCloseItems(TpexIds), MaxQuoteRows) :
         tpexDf' = PostCloseRows(items, "TPEx")
    /\ quotePc' = "concat"
    /\ queried' = Append(queried, [path |-> "tpex_postclose", rows |-> Len(tpexDf')])
    /\ UNCHANGED <<twseDf, snapshot>>

\* get_all_stocks_realtime: the concatenation it returns.
QuoteReturn ==
    /\ quotePc = "concat"
    /\ snapshot' = get_all_stocks_realtime(twseDf, tpexDf)
    /\ quotePc' = "done"
    /\ UNCHANGED <<twseDf, tpexDf, queried>>

\* A DataFetcher about to fetch the quotes.
QuoteInit ==
    /\ quotePc = "twse"
    /\ twseDf = <<>>
    /\ tpexDf = <<>>
    /\ queried = <<>>
    /\ snapshot = <<>>

\* The quote source of a specification that does not call it.
QuoteIdle ==
    /\ quotePc = "idle"
    /\ twseDf = <<>>
    /\ tpexDf = <<>>
    /\ queried = <<>>
    /\ snapshot = <<>>

(***************************************************************************)
(* The bullish pool: BullishPoolTracker.update_pool of                     *)
(* src/src/bullish_pool.py, with the files it reads and writes.  Dates are *)
(* day numbers; a history entry is a function from its keys to integers.   *)
(***************************************************************************)

MaxDay == 3             \* days the model runs through
MaxUpdates == 3         \* update_pool calls in one behaviour

PoolIds == {"1101", "2330", "2454"}

\* A function with key k set to v (dict assignment).
Put(f, k, v) == [x \in DOMAIN f \cup {k} |-> IF x = k THEN v ELSE f[x]]

NewEntry(day) == [first_date |-> day, consecutive_days |-> 1, last_date |-> day]

\* for sid in new_entries: stocks_history[sid] = {...}
HistoryNew(stocks_history, new_entries, day) ==
    [sid \in DOMAIN stocks_history \cup new_entries |->
        IF sid \in new_entries THEN NewEntry(day) ELSE stocks_history[sid]]

\* Continued ids whose counter is left as it was.
HistoryContinuedNoCount(stocks_history, continued, day) ==
    [sid \in DOMAIN stocks_history \cup continued |->
        IF sid \in continued
        THEN IF sid \in DOMAIN stocks_history
             THEN Put(stocks_history[sid], "last_date", day)
             ELSE NewEntry(day)
        ELSE stocks_history[sid]]

\* for sid in continued: consecutive_days += 1, last_date = today (a fresh entry
\* when the id has none).
HistoryContinued(stocks_history, continued, day) ==
    [sid \in DOMAIN stocks_history \cup continued |->
        IF sid \in continued
        THEN IF sid \in DOMAIN stocks_history
             THEN Put(Put(stocks_history[sid], "consecutive_days",
                          stocks_history[sid].consecutive_days + 1),
                      "last_date", day)
             ELSE NewEntry(day)
        ELSE stocks_history[sid]]

\* Removed ids losing their history entry.
HistoryRemovedDeleting(stocks_history, removed, day) ==
    [sid \in DOMAIN stocks_history \ removed |-> stocks_history[sid]]

\* for sid in removed: if sid in stocks_history: removed_date = today
HistoryRemoved(stocks_history, removed, day) ==
    [sid \in DOMAIN stocks_history |->
        IF sid \in removed THEN Put(stocks_history[sid], "removed_date", day)
        ELSE stocks_history[sid]]

\* load_pool(yesterday).get("stocks", {}).keys()
YesterdayIds(files, day) ==
    IF day - 1 \in DOMAIN files THEN DOMAIN files[day - 1] ELSE {}

NoPoolCall == [yesterday_ids |-> {}, today_ids |-> {}, new_entries |-> {},
               removed |-> {}, continued |-> {}, before |-> <<>>, day |-> 0]

\* update_pool(bullish_df), one whole call.
UpdatePool ==
    /\ updates < MaxUpdates
    /\ \E today_ids \in SUBSET PoolIds :
         LET yesterday_ids == YesterdayIds(pools, today)
             new_entries == today_ids \ yesterday_ids
             removed == yesterday_ids \ today_ids
             continued == today_ids \cap yesterday_ids
             stocks_history ==
                 HistoryRemoved(
                     HistoryContinued(HistoryNew(history, new_entries, today),
                                      continued, today),
                     removed, today)
             pool_data == [sid \in today_ids |->
                              IF sid \in DOMAIN stocks_history
                              THEN stocks_history[sid].consecutive_days ELSE 1]
         IN /\ history' = stocks_history
            /\ pools' = Put(pools, today, pool_data)
            /\ poolCall' = [yesterday_ids |-> yesterday_ids, today_ids |-> today_ids,
                            new_entries |-> new_entries, removed |-> removed,
                            continued |-> continued, before |-> history, day |-> today]
    /\ updates' = updates + 1
    /\ UNCHANGED today

\* Midnight passes.
NextDay ==
    /\ today < MaxDay
    /\ today' = today + 1
    /\ UNCHANGED <<history, pools, updates, poolCall>>

\* No pool file and no history file yet.
PoolInit ==
    /\ today = 1
    /\ history = <<>>
    /\ pools = <<>>
    /\ updates = 0
    /\ poolCall = NoPoolCall

\* The pool of a specification that does not scan it.
PoolIdle == PoolInit

(***************************************************************************)
(* Foreign sentiment: ForeignSentimentAnalyzer.analyze of                  *)
(* src/src/foreign_sentiment.py.  A side that could not be fetched (None)  *)
(* is [avail |-> FALSE, value |-> 0].  The labels stand for the class's    *)
(* SENTIMENT_* strings.                                                    *)
(***************************************************************************)

MaxNet == 3             \* largest magnitude of spot net and of OI change

Sides == {[avail |-> FALSE, value |-> 0]}
         \cup {[avail |-> TRUE, value |-> v] : v \in (0 - MaxNet)..MaxNet}

UnknownResult ==
    [sentiment |-> "UNKNOWN", spot_net |-> 0, spot_direction |-> "N/A",
     futures_oi_change |-> 0, futures_direction |-> "N/A"]

\* The cross reading with HEDGE and BOTTOM taken for each other.
CrossSwapped(spot_buy, futures_long) ==
    IF spot_buy /\ futures_long THEN "BULLISH"
    ELSE IF spot_buy /\ ~futures_long THEN "BOTTOM"
    ELSE IF ~spot_buy /\ ~futures_long THEN "BEARISH"
    ELSE "HEDGE"

\* analyze: the cross reading of spot_buy and futures_long.
Cross(spot_buy, futures_long) ==
    IF spot_buy /\ futures_long THEN "BULLISH"
    ELSE IF spot_buy /\ ~futures_long THEN "HEDGE"
    ELSE IF ~spot_buy /\ ~futures_long THEN "BEARISH"
    ELSE "BOTTOM"

\* analyze(), given what the two fetches answered.
analyze(spot, futures) ==
    IF ~spot.avail /\ ~futures.avail THEN UnknownResult
    ELSE [sentiment |-> IF spot.avail /\ futures.avail
                        THEN Cross(spot.value > 0, futures.value > 0)
                        ELSE "UNKNOWN",
          spot_net |-> IF spot.avail THEN spot.value ELSE 0,
          spot_direction |-> IF spot.avail
                             THEN (IF spot.value > 0 THEN "buy" ELSE "sell")
                             ELSE "N/A",
          futures_oi_change |-> IF futures.avail THEN futures.value ELSE 0,
          futures_direction |-> IF futures.avail
                                THEN (IF futures.value > 0 THEN "long" ELSE "short")
                                ELSE "N/A"]

\* One call of analyze().
Analyze ==
    /\ sentPc = "start"
    /\ sentiment' = analyze(spot_data, futures_data)
    /\ sentPc' = "done"
    /\ UNCHANGED <<spot_data, futures_data>>

\* The two sides as the endpoints will answer them.
SentInit ==
    /\ spot_data \in Sides
    /\ futures_data \in Sides
    /\ sentPc = "start"
    /\ sentiment = UnknownResult

\* The analyzer of a specification that does not call it.
SentIdle ==
    /\ spot_data = [avail |-> FALSE, value |-> 0]
    /\ futures_data = [avail |-> FALSE, value |-> 0]
    /\ sentPc = "idle"
    /\ sentiment = UnknownResult

(***************************************************************************)
(* Screeners.  A stage whose predicate reads data fetched per ticker       *)
(* (history, revenue, EPS, holders, institutional flows) gets, per row,    *)
(* one of three outcomes of that fetch and predicate: "pass", "fail" or    *)
(* "nodata".  The values it writes into its derived columns are            *)
(* represented by the stage's name.                                        *)
(***************************************************************************)

market_cap_min == 50
market_cap_max == 50000
price_change_min == 300
price_change_max == 1000

LeftChain ==
    <<"MarketCapScreener", "RevenueGrowthScreener", "PERatioScreener",
      "HigherLowsScreener", "PullbackScreener", "VolumePriceHealthScreener",
      "VolumeShrinkScreener", "RSIOversoldScreener", "TurnoverRateScreener",
      "MajorHolderScreener", "QuietAccumulationScreener">>

RightChain ==
    <<"MarketCapScreener", "PriceChangeScreener", "VolumeRatioScreener",
      "MovingAverageScreener", "RelativeStrengthScreener", "IntradayHighScreener">>

\* step_number as each screener's constructor sets it.
ConstructorStep(name) ==
    CASE name = "MarketCapScreener" -> 1
      [] name = "RevenueGrowthScreener" -> 2
      [] name = "PERatioScreener" -> 3
      [] name = "PullbackScreener" -> 2
      [] name = "VolumeShrinkScreener" -> 3
      [] name = "RSIOversoldScreener" -> 7
      [] name = "TurnoverRateScreener" -> 5
      [] name = "MajorHolderScreener" -> 9
      [] name = "QuietAccumulationScreener" -> 6
      [] name = "PriceChangeScreener" -> 1
      [] name = "VolumeRatioScreener" -> 2
      [] name = "MovingAverageScreener" -> 6
      [] name = "RelativeStrengthScreener" -> 7
      [] name = "IntradayHighScreener" -> 8

\* The two screeners whose classes lie past the end of src/src/screeners/filters.py:
\* numbered as pipeline.py and settings.py number their steps.
MissingStep(name) ==
    CASE name = "HigherLowsScreener" -> 4
      [] name = "VolumePriceHealthScreener" -> 6

\* _init_left_screeners: the constructors' numbers stay.
init_left_screeners ==
    [i \in DOMAIN LeftChain |->
        [name |-> LeftChain[i],
         step_number |-> IF LeftChain[i] \in {"HigherLowsScreener", "VolumePriceHealthScreener"}
                         THEN MissingStep(LeftChain[i])
                         ELSE ConstructorStep(LeftChain[i])]]

\* _init_right_screeners: step_number is set to the position, 1..6.
init_right_screeners ==
    [i \in DOMAIN RightChain |-> [name |-> RightChain[i], step_number |-> i]]

\* _init_screeners
init_screeners(m) ==
    IF m = "right" THEN init_right_screeners ELSE init_left_screeners

\* VolumeShrinkScreener assigning its info text to revenue_info, a column of an
\* earlier stage of the same chain.
ColumnsWrittenOverwriting(name) ==
    CASE name = "RevenueGrowthScreener" -> {"revenue_valid", "revenue_info", "revenue_growth"}
      [] name = "PERatioScreener" -> {"pe_valid", "pe_info", "pe_ratio"}
      [] name = "PullbackScreener" -> {"pullback_valid", "pullback_info", "pullback_pct"}
      [] name = "VolumeShrinkScreener" ->
            {"shrink_valid", "revenue_info", "volume_ratio", "shrink_days"}
      [] name = "RSIOversoldScreener" -> {"rsi_valid", "rsi_info", "rsi"}
      [] name = "TurnoverRateScreener" -> {"turnover_rate"}
      [] name = "MajorHolderScreener" ->
            {"holder_valid", "holder_info", "major_holder_pct", "holder_change"}
      [] name = "QuietAccumulationScreener" ->
            {"accumulation_valid", "accumulation_info", "foreign_consecutive",
             "trust_consecutive"}
      [] name = "PriceChangeScreener" -> {}
      [] name = "VolumeRatioScreener" -> {"volume_ratio"}
      [] name = "MovingAverageScreener" -> {"ma_bullish"}
      [] name = "RelativeStrengthScreener" -> {"relative_strength"}
      [] name = "IntradayHighScreener" -> {"intraday_strong"}

\* The derived columns each screener assigns.
ColumnsWritten(name) ==
    CASE name = "RevenueGrowthScreener" -> {"revenue_valid", "revenue_info", "revenue_growth"}
      [] name = "PERatioScreener" -> {"pe_valid", "pe_info", "pe_ratio"}
      [] name = "PullbackScreener" -> {"pullback_valid", "pullback_info", "pullback_pct"}
      [] name = "VolumeShrinkScreener" ->
            {"shrink_valid", "shrink_info", "volume_ratio", "shrink_days"}
      [] name = "RSIOversoldScreener" -> {"rsi_valid", "rsi_info", "rsi"}
      [] name = "TurnoverRateScreener" -> {"turnover_rate"}
      [] name = "MajorHolderScreener" ->
            {"holder_valid", "holder_info", "major_holder_pct", "holder_change"}
      [] name = "QuietAccumulationScreener" ->
            {"accumulation_valid", "accumulation_info", "foreign_consecutive",
             "trust_consecutive"}
      [] name = "PriceChangeScreener" -> {}
      [] name = "VolumeRatioScreener" -> {"volume_ratio"}
      [] name = "MovingAverageScreener" -> {"ma_bullish"}
      [] name = "RelativeStrengthScreener" -> {"relative_strength"}
      [] name = "IntradayHighScreener" -> {"intraday_strong"}

\* The columns of the two missing screeners, as the exporter lists them.
MissingColumns(name) ==
    CASE name = "HigherLowsScreener" -> {"higher_lows_info", "higher_lows_confirms"}
      [] name = "VolumePriceHealthScreener" -> {"vp_status", "vp_info", "vp_volume_ratio"}

\* Whether a row whose per-ticker data is missing stays in the batch.
KeepsOnNoData(name) ==
    name \in {"RevenueGrowthScreener", "PERatioScreener", "RSIOversoldScreener",
              "MajorHolderScreener"}

\* The missing screeners drop a row without history (the default of the
\* specification's failure semantics).
MissingKeepsOnNoData(name) == FALSE

Outcomes == {"pass", "fail", "nodata"}

\* A per-ticker screener: assign the derived columns to every row, keep the
\* rows whose outcome passes.
RECURSIVE ScreenRows(_, _, _, _, _)
ScreenRows(batch, outs, cols, keepNoData, tag) ==
    IF batch = <<>> THEN <<>>
    ELSE LET row == Head(batch)
             tagged == [c \in DOMAIN row \cup cols |->
                          IF c \in cols THEN tag ELSE row[c]]
             kept == outs[1] = "pass" \/ (outs[1] = "nodata" /\ keepNoData)
             rest == ScreenRows(Tail(batch), Tail(outs), cols, keepNoData, tag)
         IN IF kept THEN <<tagged>> \o rest ELSE rest

\* What get_market_cap_data may answer: nothing, one row per ticker, or a
\* latest date that lists a ticker twice.
CapRow(id, cap) == [stock_id |-> id, market_cap |-> cap]
CapTables ==
    {<<>>,
     <<CapRow("1101", 100), CapRow("9999", 60), CapRow("6488", 10)>>,
     <<CapRow("1101", 100), CapRow("1101", 101), CapRow("9999", 60), CapRow("6488", 55)>>}

\* df.merge(market_cap_data, on="stock_id", how="left"): each batch row once per
\* matching row of the table, or once with NaN when there is none.
RECURSIVE MergeLeft(_, _)
MergeLeft(batch, cap) ==
    IF batch = <<>> THEN <<>>
    ELSE LET row == Head(batch)
             hits == SelectSeq(cap, LAMBDA c : c.stock_id = row.stock_id)
             joined == IF hits = <<>> THEN <<SetCol(row, "market_cap", NaN)>>
                       ELSE [i \in DOMAIN hits |-> SetCol(row, "market_cap", hits[i].market_cap)]
         IN joined \o MergeLeft(Tail(batch), cap)

\* MarketCapScreener.screen
MarketCapScreen(batch, cap) ==
    IF cap # <<>>
    THEN Filter(MergeLeft(batch, cap),
                LAMBDA r : r.market_cap # NaN /\ r.market_cap >= market_cap_min
                           /\ r.market_cap <= market_cap_max)
    ELSE IF \A i \in DOMAIN batch : {"volume", "price"} \subseteq DOMAIN batch[i]
    THEN Filter([i \in DOMAIN batch |->
                    SetCol(SetCol(batch[i], "trade_value", batch[i].volume * batch[i].price),
                           "market_cap", NaN)],
                LAMBDA r : r.trade_value >= market_cap_min * 10)
    ELSE [i \in DOMAIN batch |-> SetCol(batch[i], "market_cap", NaN)]

\* PriceChangeScreener.screen
PriceChangeScreen(batch) ==
    Filter(batch, LAMBDA r : r.change_pct >= price_change_min
                             /\ r.change_pct <= price_change_max)

\* RelativeStrengthScreener.screen; benchmark 0 stands for None or 0.
RelativeStrengthScreen(batch, benchmark) ==
    Filter([i \in DOMAIN batch |->
               SetCol(batch[i], "relative_strength", "RelativeStrengthScreener")],
           LAMBDA r : r.change_pct > benchmark)

\* IntradayHighScreener.screen: price >= high * 0.97 and price > open.
IntradayHighScreen(batch) ==
    Filter([i \in DOMAIN batch |-> SetCol(batch[i], "intraday_strong", "IntradayHighScreener")],
           LAMBDA r : r.price * 100 >= r.high * 97 /\ r.price > r.open)

Benchmarks == {0, 100, 600}

\* The external data one call of a screener reads.
ExtInputs(name, batch) ==
    CASE name = "MarketCapScreener" -> CapTables
      [] name = "PriceChangeScreener" -> {0}
      [] name = "IntradayHighScreener" -> {0}
      [] name = "RelativeStrengthScreener" -> Benchmarks
      [] OTHER -> [1..Len(batch) -> Outcomes]

\* screener.screen(df); every screen returns an empty df as it is.
Screen(name, batch, ext) ==
    CASE batch = <<>> -> batch
      [] name = "MarketCapScreener" -> MarketCapScreen(batch, ext)
      [] name = "PriceChangeScreener" -> PriceChangeScreen(batch)
      [] name = "IntradayHighScreener" -> IntradayHighScreen(batch)
      [] name = "RelativeStrengthScreener" -> RelativeStrengthScreen(batch, ext)
      [] name \in {"HigherLowsScreener", "VolumePriceHealthScreener"} ->
            ScreenRows(batch, ext, MissingColumns(name), MissingKeepsOnNoData(name), name)
      [] OTHER ->
            ScreenRows(batch, ext, ColumnsWritten(name), KeepsOnNoData(name), name)

\* The statistics with the input counted after the stage has screened.
get_stats_counted_late(screener, input_count, output_count) ==
    [step |-> screener.step_number, name |-> screener.name,
     input |-> output_count, output |-> output_count,
     filtered_out |-> 0]

\* The screeners whose predicate reads the price history of each ticker.
HistoryStages ==
    {"VolumeRatioScreener", "MovingAverageScreener", "PullbackScreener",
     "VolumeShrinkScreener", "RSIOversoldScreener"}

\* The batches one screener is tried on: one or two distinct quote rows.
StageBatches == {<<QA>>, <<QC>>, <<QA, QC>>, <<QC, QA>>}

\* One history-reading screener called on one batch; the outcome of each row's
\* history lookup is chosen freely: enough history and the predicate holds,
\* enough history and it does not, or history empty or too short.
ScreenStage ==
    /\ stagePc = "start"
    /\ \E outs \in ExtInputs(stageName, stageIn) :
         /\ stageOuts' = outs
         /\ stageOut' = Screen(stageName, stageIn, outs)
    /\ stagePc' = "done"
    /\ UNCHANGED <<stageName, stageIn>>

\* A screener constructed with the fetcher, about to be called.
StageInit ==
    /\ stageName \in HistoryStages
    /\ stageIn \in StageBatches
    /\ stageOuts = <<>>
    /\ stageOut = <<>>
    /\ stagePc = "start"

\* No screener called on its own.
StageIdle ==
    /\ stageName = "RSIOversoldScreener"
    /\ stageIn = <<>>
    /\ stageOuts = <<>>
    /\ stageOut = <<>>
    /\ stagePc = "idle"

\* BaseScreener.get_stats after __call__
get_stats(screener, input_count, output_count) ==
    [step |-> screener.step_number, name |-> screener.name,
     input |-> input_count, output |-> output_count,
     filtered_out |-> input_count - output_count]

(***************************************************************************)
(* ScreeningPipeline.run                                                   *)
(***************************************************************************)

screeners == init_screeners(mode)

\* run(), up to the stage loop: fetch the quotes, return at once when there are
\* none, else add the industry column and reset stats and step_results.
RunFetch ==
    /\ pipePc = "start"
    /\ \E twse_df \in TwseAnswers, tpex_df \in TpexAnswers, hasIndustry \in BOOLEAN :
         LET q == get_all_stocks_realtime(twse_df, tpex_df) IN
         /\ quotes' = q
         /\ IF q = <<>>
            THEN /\ runResult' = <<>>
                 /\ pipePc' = "done"
                 /\ UNCHANGED <<df, stats, step_results>>
            ELSE /\ df' = IF hasIndustry
                          THEN [i \in DOMAIN q |-> SetCol(q[i], "industry", "industry")]
                          ELSE q
                 /\ stats' = <<>>
                 /\ step_results' = <<>>
                 /\ pipePc' = "stages"
                 /\ UNCHANGED runResult
    /\ UNCHANGED <<mode, stageIdx, fed, handed>>

\* The stage loop without its break on an empty batch.
LoopWithoutBreak == stageIdx <= Len(screeners)

\* for screener in self.screeners: if df.empty: break
LoopContinues == stageIdx <= Len(screeners) /\ df # <<>>

\* One turn of the stage loop: df = screener(df), the stat, the snapshot.
RunStage ==
    /\ pipePc = "stages"
    /\ LoopContinues
    /\ LET screener == screeners[stageIdx] IN
       \E ext \in ExtInputs(screener.name, df) :
         LET result == Screen(screener.name, df, ext) IN
         /\ df' = result
         /\ stats' = Append(stats, get_stats(screener, Len(df), Len(result)))
         /\ step_results' =
              [k \in DOMAIN step_results \cup {screener.step_number} |->
                  IF k = screener.step_number
                  THEN [name |-> screener.name, data |-> result]
                  ELSE step_results[k]]
         /\ fed' = Append(fed, df)
         /\ handed' = Append(handed, result)
    /\ stageIdx' = stageIdx + 1
    /\ UNCHANGED <<mode, pipePc, quotes, runResult>>

\* The orderings DataFrame.sort_values("change_pct", ascending=False) may give:
\* the default kind is quicksort, which is not stable, so rows of equal
\* change_pct come out in any order.
SortValuesDesc(batch) ==
    {s \in {[i \in DOMAIN batch |-> batch[p[i]]] : p \in Permutations(DOMAIN batch)} :
        \A i \in 1..(Len(s) - 1) : s[i].change_pct >= s[i + 1].change_pct}

\* df["rank"] = range(1, len(df) + 1)
AssignRank(batch) == [i \in DOMAIN batch |-> SetCol(batch[i], "rank", i)]

\* The loop has ended (list exhausted, or the batch is empty): rank in right
\* mode, return.
RunFinish ==
    /\ pipePc = "stages"
    /\ ~LoopContinues
    /\ IF mode = "right" /\ df # <<>>
       THEN \E s \in SortValuesDesc(df) : runResult' = AssignRank(s)
       ELSE runResult' = df
    /\ df' = runResult'
    /\ pipePc' = "done"
    /\ UNCHANGED <<mode, stageIdx, stats, step_results, fed, handed, quotes>>

\* ScreeningPipeline.__init__
PipeInit ==
    /\ mode \in {"left", "right"}
    /\ pipePc = "start"
    /\ stageIdx = 1
    /\ df = <<>>
    /\ stats = <<>>
    /\ step_results = <<>>
    /\ fed = <<>>
    /\ handed = <<>>
    /\ quotes = <<>>
    /\ runResult = <<>>

\* The pipeline of a specification that does not run it.
PipeIdle ==
    /\ mode = "left"
    /\ pipePc = "idle"
    /\ stageIdx = 1
    /\ df = <<>>
    /\ stats = <<>>
    /\ step_results = <<>>
    /\ fed = <<>>
    /\ handed = <<>>
    /\ quotes = <<>>
    /\ runResult = <<>>

(***************************************************************************)
(* The orchestrator: main() and run_screener() of src/src/main.py.  Time   *)
(* of day is in seconds since midnight; weekday() is 0 (Monday) to 6.      *)
(***************************************************************************)

\* config/settings.py: MARKET_CLOSE = time(13, 30), SCREENING_START = time(13, 0)
MARKET_CLOSE == 48600
SCREENING_START == 46800

Weekdays == {4, 5}
Times == {46799, 46800, 46801, 48599, 48600, 48601}

\* The window with its two ends left out.
is_trading_time_open(t) == SCREENING_START < t /\ t < MARKET_CLOSE

\* is_trading_time
is_trading_time(t) == SCREENING_START <= t /\ t <= MARKET_CLOSE

\* is_weekday
is_weekday(wd) == wd < 5

\* The gate at the head of run_screener: TRUE when the screener goes on.
GatePasses(force, n) ==
    IF ~force
    THEN IF ~is_weekday(n.weekday) THEN FALSE
         ELSE IF ~is_trading_time(n.time) THEN FALSE
         ELSE TRUE
    ELSE TRUE

\* sys.exit status of main for each end of its try block.
ExitStatus(how) ==
    CASE how = "normal" -> 0
      [] how = "interrupt" -> 0
      [] how = "error" -> 1

Running == mainPc \notin {"idle", "exited"}

NoScreening == [gate |-> "none", quotes |-> "none", results |-> "none", steps |-> FALSE]

\* main(): the branch on --pool-only / --inst-only.
MainDispatch ==
    /\ mainPc = "start"
    /\ mainPc' = IF args.pool_only THEN "pool_only"
                 ELSE IF args.inst_only THEN "inst_only"
                 ELSE "gate"
    /\ UNCHANGED <<args, now, effects, screening, outcome, exitCode>>

\* run_screener: the weekday and time-window check.
ScreenerGate ==
    /\ mainPc = "gate"
    /\ IF GatePasses(args.force, now)
       THEN /\ mainPc' = "pipeline"
            /\ screening' = [screening EXCEPT !.gate = "passed"]
       ELSE /\ mainPc' = "after_screener"
            /\ screening' = [screening EXCEPT !.gate = "rejected"]
    /\ UNCHANGED <<args, now, effects, outcome, exitCode>>

\* run_screener: pipeline.run() and get_step_results().  Without quotes run
\* returns an empty frame and step_results stays empty.
ScreenerPipeline ==
    /\ mainPc = "pipeline"
    /\ \E q \in {"empty", "some"} :
         \E r \in (IF q = "empty" THEN {"empty"} ELSE {"empty", "some"}) :
            screening' = [screening EXCEPT !.quotes = q, !.results = r,
                                           !.steps = (q = "some")]
    /\ effects' = effects \cup {"pipeline"}
    /\ mainPc' = "display"
    /\ UNCHANGED <<args, now, outcome, exitCode>>

\* run_screener: TerminalDisplay of the steps and of the final results.
ScreenerDisplay ==
    /\ mainPc = "display"
    /\ effects' = effects \cup {"display_results"}
                   \cup (IF screening.steps THEN {"display_steps"} ELSE {})
    /\ mainPc' = "export"
    /\ UNCHANGED <<args, now, screening, outcome, exitCode>>

\* run_screener: CSVExporter() (which cleans old folders), the step files, the
\* final file.
ScreenerExport ==
    /\ mainPc = "export"
    /\ effects' = effects \cup {"cleanup"}
                   \cup (IF screening.steps THEN {"export_steps"} ELSE {})
                   \cup (IF screening.results = "some" THEN {"export_final"} ELSE {})
    /\ mainPc' = "notify"
    /\ UNCHANGED <<args, now, screening, outcome, exitCode>>

\* run_screener: the Discord notifier, when a webhook is configured.
ScreenerNotify ==
    /\ mainPc = "notify"
    /\ \E enabled \in BOOLEAN :
         effects' = effects
                    \cup (IF enabled /\ screening.steps THEN {"notify_steps"} ELSE {})
                    \cup (IF enabled THEN {"notify_results"} ELSE {})
    /\ mainPc' = IF args.pool \/ args.all THEN "pool" ELSE "after_screener"
    /\ UNCHANGED <<args, now, screening, outcome, exitCode>>

\* run_screener: run_bullish_pool_scan when scan_pool.
ScreenerPool ==
    /\ mainPc = "pool"
    /\ effects' = effects \cup {"pool_scan"}
    /\ mainPc' = "after_screener"
    /\ UNCHANGED <<args, now, screening, outcome, exitCode>>

\* main(): after run_screener returned, run_institutional_scan when scan_inst.
MainAfterScreener ==
    /\ mainPc = "after_screener"
    /\ IF args.inst \/ args.all
       THEN /\ effects' = effects \cup {"inst_scan"}
       ELSE /\ UNCHANGED effects
    /\ mainPc' = "return"
    /\ UNCHANGED <<args, now, screening, outcome, exitCode>>

\* main(): --pool-only
MainPoolOnly ==
    /\ mainPc = "pool_only"
    /\ effects' = effects \cup {"pool_scan"}
    /\ mainPc' = "return"
    /\ UNCHANGED <<args, now, screening, outcome, exitCode>>

\* main(): --inst-only
MainInstOnly ==
    /\ mainPc = "inst_only"
    /\ effects' = effects \cup {"inst_scan"}
    /\ mainPc' = "return"
    /\ UNCHANGED <<args, now, screening, outcome, exitCode>>

\* main() returns from its try block: the interpreter exits.
MainReturn ==
    /\ mainPc = "return"
    /\ outcome' = "normal"
    /\ exitCode' = ExitStatus("normal")
    /\ mainPc' = "exited"
    /\ UNCHANGED <<args, now, effects, screening>>

\* except KeyboardInterrupt: at any point of the try block.
MainInterrupt ==
    /\ Running
    /\ outcome' = "interrupt"
    /\ exitCode' = ExitStatus("interrupt")
    /\ mainPc' = "exited"
    /\ UNCHANGED <<args, now, effects, screening>>

\* except Exception: an error escapes the step the try block is at.
MainError ==
    /\ Running
    /\ mainPc # "return"
    /\ outcome' = "error"
    /\ exitCode' = ExitStatus("error")
    /\ mainPc' = "exited"
    /\ UNCHANGED <<args, now, effects, screening>>

Flags == [force : BOOLEAN, pool : BOOLEAN, pool_only : BOOLEAN,
          inst : BOOLEAN, inst_only : BOOLEAN, all : BOOLEAN,
          mode : {"left", "right"}]

\* The process as main() starts its try block.
MainInit ==
    /\ args \in Flags
    /\ now \in [weekday : Weekdays, time : Times]
    /\ mainPc = "start"
    /\ effects = {}
    /\ screening = NoScreening
    /\ outcome = "running"
    /\ exitCode = 0 - 1

\* The orchestrator of a specification that does not run it.
MainIdle ==
    /\ args = [force |-> FALSE, pool |-> FALSE, pool_only |-> FALSE,
               inst |-> FALSE, inst_only |-> FALSE, all |-> FALSE, mode |-> "left"]
    /\ now = [weekday |-> 4, time |-> 46800]
    /\ mainPc = "idle"
    /\ effects = {}
    /\ screening = NoScreening
    /\ outcome = "running"
    /\ exitCode = 0 - 1

\* The history store of a specification that does not call it.
HistIdle == HistInit

(***************************************************************************)
(* Properties of the history store (SpecHist).                             *)
(***************************************************************************)

\* C1: once a get_historical_data call has seen the primary provider answer
\* 402, no later call consults the primary provider.
C1_ProviderLatch == ~(histCall.primary /\ histCall.quotaBefore)

WellFormed(s, days) ==
    /\ Len(s) <= days
    /\ \A i \in 1..(Len(s) - 1) : s[i] < s[i + 1]

\* C10: every result of get_historical_data(id, days), from the primary or from
\* the fallback, has pairwise distinct dates, ascending, at most days rows.
C10_CandlesWellFormed == histCall # NoCall => WellFormed(histCall.result, histCall.days)

\* C11: once get_historical_data(id, days) has returned a non-empty result it
\* is cached under (id, days); a call whose key is cached returns the cached
\* value, consults no provider and leaves the failure counter and the
\* available flag alone; a cached value is never replaced.
C11_Memoization ==
    [][ /\ \A k \in DOMAIN hist_data_cache :
              k \in DOMAIN hist_data_cache' /\ hist_data_cache'[k] = hist_data_cache[k]
        /\ histCall'.result # <<>> =>
              /\ <<histCall'.id, histCall'.days>> \in DOMAIN hist_data_cache'
              /\ hist_data_cache'[<<histCall'.id, histCall'.days>>] = histCall'.result
        /\ <<histCall'.id, histCall'.days>> \in DOMAIN hist_data_cache =>
              /\ histCall'.cached /\ ~histCall'.primary /\ ~histCall'.fallback
              /\ histCall'.result = hist_data_cache[<<histCall'.id, histCall'.days>>]
              /\ finmind_fail_count' = finmind_fail_count
              /\ finmind_available' = finmind_available
              /\ hist_data_cache' = hist_data_cache
      ]_vars

\* A call answered from the cache while the other key is cached with a
\* different value.
C11_Witness ==
    /\ histCall.cached
    /\ histCall.result # <<>>
    /\ Cardinality(DOMAIN hist_data_cache) = 2
    /\ \E k \in DOMAIN hist_data_cache : hist_data_cache[k] # histCall.result

\* C16: after three consecutive failed primary calls of any kind with no
\* success in between, the primary-available flag is false (so the next
\* uncached call does not consult the primary provider).
C16_FailureLatch == finmind_fail_count >= max_fail_count => ~finmind_available

\* C17: once the primary-available flag is false it stays false, and no later
\* call consults the primary provider; a later uncached call is served by the
\* fallback alone.
C17_FallbackAbsorbing ==
    [][ ~finmind_available =>
            /\ ~finmind_available'
            /\ ~histCall'.primary
            /\ ~histCall'.cached => histCall'.fallback
            /\ finmind_fail_count' = finmind_fail_count
      ]_vars

\* An uncached call served by the fallback after the latch closed.
C17_Witness ==
    /\ ~finmind_available
    /\ ~histCall.cached /\ ~histCall.primary /\ histCall.fallback
    /\ histCall.result # <<>>

\* C18: every entry of the history cache is non-empty; after a call has
\* returned empty, the next call with the same (id, days) is not answered from
\* the cache: it consults the primary unless latched, then the fallback.
C18_EmptyNotMemoized ==
    /\ [](\A k \in DOMAIN hist_data_cache : hist_data_cache[k] # <<>>)
    /\ []((histCall # NoCall /\ histCall.result = <<>>) =>
             <<histCall.id, histCall.days>> \notin DOMAIN hist_data_cache)
    /\ [][ (histCall # NoCall /\ histCall.result = <<>>
            /\ histCall'.id = histCall.id /\ histCall'.days = histCall.days) =>
               /\ ~histCall'.cached
               /\ histCall'.primary <=> finmind_available
               /\ histCall'.primary \/ histCall'.fallback
               /\ histCall'.result = <<>> => histCall'.fallback
          ]_vars

\* A request that came back empty and, asked again, came back with candles
\* from the primary provider.
C18_Witness ==
    /\ histCall.primary /\ ~histCall.cached
    /\ histCall.result # <<>>
    /\ finmind_fail_count = 0
    /\ quotaSeen
    /\ Cardinality(DOMAIN hist_data_cache) = 1

(***************************************************************************)
(* Properties of ScreeningPipeline.run (SpecPipe).                         *)
(***************************************************************************)

Executed == 1..Len(handed)

\* C2: after run, every executed stage has its own snapshot in step_results,
\* equal to the batch it handed to the next stage.
C2_SnapshotIntegrity ==
    (pipePc = "done" /\ quotes # <<>>) =>
        \A i \in Executed :
            /\ screeners[i].step_number \in DOMAIN step_results
            /\ step_results[screeners[i].step_number].name = screeners[i].name
            /\ step_results[screeners[i].step_number].data = handed[i]

\* C3: the stages run in list order, each on the previous stage's output; run
\* ends after the last stage or at the first empty batch; nothing is recorded
\* for a stage that did not execute; run returns.
C3_RunnerOrder ==
    /\ Len(stats) = Len(handed) /\ Len(fed) = Len(handed)
    /\ Len(handed) <= Len(screeners)
    /\ \A i \in Executed :
          /\ stats[i].name = screeners[i].name
          /\ stats[i].step = screeners[i].step_number
          /\ stats[i].input = Len(fed[i])
          /\ stats[i].output = Len(handed[i])
          /\ fed[i] # <<>>
          /\ i > 1 => fed[i] = handed[i - 1]
    /\ DOMAIN step_results = {screeners[i].step_number : i \in Executed}
    /\ pipePc \in {"start", "stages", "done"}
    /\ pipePc = "stages" => stageIdx = Len(handed) + 1
    /\ (pipePc = "done" /\ quotes # <<>>) =>
          /\ Len(handed) = Len(screeners) \/ handed[Len(handed)] = <<>>
          /\ mode = "left" => runResult = handed[Len(handed)]
          /\ Len(runResult) = Len(handed[Len(handed)])

\* A run that stopped at an empty batch with stages left over.
C3_Witness ==
    /\ pipePc = "done"
    /\ handed # <<>>
    /\ Len(handed) > 1
    /\ Len(handed) < Len(screeners)
    /\ handed[Len(handed)] = <<>>

OnColumns(row, cols) == [c \in cols |-> row[c]]

\* C4: for every stage call output_count <= input_count, and every output row
\* equals some input row on the input's columns, no input row more than once.
C4_MonotoneElimination ==
    \A i \in Executed :
        /\ stats[i].output <= stats[i].input
        /\ \A j \in DOMAIN handed[i] :
              \E k \in DOMAIN fed[i] :
                 /\ DOMAIN fed[i][k] \subseteq DOMAIN handed[i][j]
                 /\ OnColumns(handed[i][j], DOMAIN fed[i][k]) = fed[i][k]
        /\ \A k \in DOMAIN fed[i] :
              Cardinality({j \in DOMAIN handed[i] :
                              /\ DOMAIN fed[i][k] \subseteq DOMAIN handed[i][j]
                              /\ OnColumns(handed[i][j], DOMAIN fed[i][k]) = fed[i][k]})
                 <= Cardinality({k2 \in DOMAIN fed[i] : fed[i][k2] = fed[i][k]})

\* C5: in right mode with a non-empty final batch, run returns the rows in
\* change_pct-descending order, rank the 1-based position, rows of equal
\* change_pct in the order they had in the last stage's output.
C5_RankStable ==
    (pipePc = "done" /\ mode = "right" /\ handed # <<>> /\ runResult # <<>>) =>
        LET last == handed[Len(handed)] IN
        /\ Len(runResult) = Len(last)
        /\ \A i \in DOMAIN runResult : runResult[i].rank = i
        /\ \A i \in 1..(Len(runResult) - 1) :
              runResult[i].change_pct >= runResult[i + 1].change_pct
        /\ \E p \in Permutations(DOMAIN last) :
              /\ \A i \in DOMAIN last : runResult[i] = SetCol(last[p[i]], "rank", i)
              /\ \A i, j \in DOMAIN last :
                    (i < j /\ last[p[i]].change_pct = last[p[j]].change_pct) => p[i] < p[j]

\* C6: every row a stage returns carries every column of the stage's input
\* with the value it had; a stage adds columns and overwrites or drops none.
C6_ColumnsPreserved ==
    \A i \in Executed :
        \A j \in DOMAIN handed[i] :
            \E k \in DOMAIN fed[i] :
                /\ DOMAIN fed[i][k] \subseteq DOMAIN handed[i][j]
                /\ \A c \in DOMAIN fed[i][k] : handed[i][j][c] = fed[i][k][c]

\* A left-chain run in which VolumeShrinkScreener returned rows that carry the
\* columns of the quote source, of the market-cap stage and of the stages between.
C6_Witness ==
    /\ mode = "left"
    /\ Len(handed) >= 7
    /\ handed[7] # <<>>
    /\ {"volume", "market_cap", "revenue_info", "pullback_info", "volume_ratio"}
          \subseteq DOMAIN handed[7][1]

(***************************************************************************)
(* Properties of main() (SpecMain).                                        *)
(***************************************************************************)

\* What run_screener does past its gate.
ScreenerEffects ==
    {"pipeline", "display_steps", "display_results", "cleanup", "export_steps",
     "export_final", "notify_steps", "notify_results"}

InWindow == now.weekday < 5 /\ SCREENING_START <= now.time /\ now.time <= MARKET_CLOSE

\* C7: run_screener runs the pipeline (and displays, exports, notifies) only if
\* force is set or it is a weekday with the time in [SCREENING_START,
\* MARKET_CLOSE]; with force the gate always passes; when the gate rejects,
\* no pipeline, export or notification happens.
C7_TimeGate ==
    /\ screening.gate # "none" =>
          (screening.gate = "passed" <=> (args.force \/ InWindow))
    /\ effects \cap ScreenerEffects # {} => (args.force \/ InWindow)
    /\ screening.gate = "rejected" =>
          /\ effects \cap ScreenerEffects = {}
          /\ "pool_scan" \notin effects
    /\ (screening.gate = "passed" /\ outcome = "normal") => "pipeline" \in effects

\* The gate passed at the first and at the last second of the window without
\* force, and the pipeline ran.
C7_Witness ==
    /\ ~args.force
    /\ now.time \in {SCREENING_START, MARKET_CLOSE}
    /\ screening.gate = "passed"
    /\ "pipeline" \in effects

\* C8: the exit status of main is 0 when the run completes normally, 1 when an
\* error other than an interrupt escapes, 130 when the run is interrupted.
C8_ExitCodes ==
    mainPc = "exited" =>
        exitCode = CASE outcome = "normal" -> 0
                     [] outcome = "error" -> 1
                     [] outcome = "interrupt" -> 130

\* C9: when no quote could be fetched from either venue, the run is fatal: the
\* process exits non-zero, and nothing is exported or notified.
C9_FatalOnNoQuotes ==
    screening.quotes = "empty" =>
        /\ effects \cap {"export_steps", "export_final", "notify_steps", "notify_results"} = {}
        /\ (mainPc = "exited" /\ outcome # "interrupt") => exitCode \notin {0}

(***************************************************************************)
(* Properties of the quote source (SpecQuote).                             *)
(***************************************************************************)

Paths == [i \in DOMAIN queried |-> queried[i].path]

\* The order of paths the protocol asks for, given what the two intraday
\* paths produced.
ExpectedPaths(twseIntraday, tpexIntraday) ==
    <<"twse_intraday">> \o (IF twseIntraday = 0 THEN <<"twse_postclose">> ELSE <<>>)
    \o <<"tpex_intraday">> \o (IF tpexIntraday = 0 THEN <<"tpex_postclose">> ELSE <<>>)

C15_ChangePctExact ==
    \A i \in DOMAIN snapshot :
        snapshot[i].prev_close > 0 =>
            LET e == snapshot[i].change_pct * snapshot[i].prev_close
                     - 10000 * (snapshot[i].price - snapshot[i].prev_close)
            IN 10000 * (IF e < 0 THEN 0 - e ELSE e) < snapshot[i].prev_close

(***************************************************************************)
(* Properties of the bullish pool (SpecPool).                              *)
(***************************************************************************)

\* C13: update_pool returns new = T \ Y, removed = Y \ T, continued = T \cap Y;
\* in the saved history a continued id's consecutive_days is one more than
\* before, a new id's is 1, and a removed id with an entry has removed_date = today.
C13_PoolUpdate ==
    poolCall # NoPoolCall =>
        LET Y == poolCall.yesterday_ids
            T == poolCall.today_ids
        IN /\ poolCall.new_entries = T \ Y
           /\ poolCall.removed = Y \ T
           /\ poolCall.continued = T \cap Y
           /\ poolCall.new_entries \cap poolCall.continued = {}
           /\ poolCall.new_entries \cap poolCall.removed = {}
           /\ poolCall.removed \cap poolCall.continued = {}
           /\ poolCall.new_entries \cup poolCall.continued = T
           /\ \A sid \in poolCall.continued :
                 /\ sid \in DOMAIN poolCall.before
                 /\ history[sid].consecutive_days
                       = poolCall.before[sid].consecutive_days + 1
           /\ \A sid \in poolCall.new_entries : history[sid].consecutive_days = 1
           /\ \A sid \in poolCall.removed \cap DOMAIN poolCall.before :
                 /\ sid \in DOMAIN history
                 /\ "removed_date" \in DOMAIN history[sid]
                 /\ history[sid].removed_date = poolCall.day

\* Scenario S6: an update with a new, a removed and a continued id, the
\* continued one already at two days or more.
C13_Witness ==
    /\ poolCall.new_entries # {}
    /\ poolCall.removed # {}
    /\ \E sid \in poolCall.continued : history[sid].consecutive_days >= 3

\* C23: for an id that is in the bullish set at every update_pool call,
\* consecutive_days after the k-th update equals k, also when two consecutive
\* updates are more than one calendar day apart.  (Stated for behaviours with
\* one update a day at most, so that every call's set is the day's pool file.)
C23_ConsecutiveAcrossGaps ==
    \A sid \in PoolIds :
        (/\ updates >= 1
         /\ updates = Cardinality(DOMAIN pools)
         /\ \A d \in DOMAIN pools : sid \in DOMAIN pools[d]) =>
            /\ sid \in DOMAIN history
            /\ history[sid].consecutive_days = updates

\* C24: a second update_pool call on the same calendar day with the same
\* bullish set leaves history.json and today's pool file as the first call
\* left them.
C24_SameDayIdempotent ==
    [][ (/\ poolCall # NoPoolCall
         /\ poolCall.day = today
         /\ updates' = updates + 1
         /\ poolCall'.today_ids = poolCall.today_ids) =>
            /\ history' = history
            /\ pools' = pools
      ]_vars

\* C25: across update_pool calls no id is ever deleted from history.stocks,
\* and an id leaving the pool only gains removed_date = today on its entry.
C25_HistoryGrows ==
    [][ /\ DOMAIN history \subseteq DOMAIN history'
        /\ updates' = updates + 1 =>
              \A sid \in poolCall'.removed \cap DOMAIN history :
                  history'[sid] = Put(history[sid], "removed_date", today)
      ]_vars

\* An id that left the pool at the last update and still has its entry, with
\* the day it left.
C25_Witness ==
    \E sid \in poolCall.removed :
        /\ sid \in DOMAIN history
        /\ "removed_date" \in DOMAIN history[sid]
        /\ history[sid].removed_date = poolCall.day
        /\ history[sid].consecutive_days >= 2
        /\ Cardinality(DOMAIN history) >= 2

(***************************************************************************)
(* Properties of the foreign sentiment (SpecSent).                         *)
(***************************************************************************)

\* C14: with both sides available analyze labels (spot > 0, OI > 0) BULLISH,
\* (spot > 0, OI < 0) HEDGE, (spot < 0, OI < 0) BEARISH, (spot < 0, OI > 0)
\* BOTTOM; with one side or none the label is UNKNOWN, and an available side's
\* value and direction are reported.
C14_SentimentLabels ==
    sentPc = "done" =>
        LET s == spot_data.value
            f == futures_data.value
        IN /\ (spot_data.avail /\ futures_data.avail) =>
                 /\ (s > 0 /\ f > 0) => sentiment.sentiment = "BULLISH"
                 /\ (s > 0 /\ f < 0) => sentiment.sentiment = "HEDGE"
                 /\ (s < 0 /\ f < 0) => sentiment.sentiment = "BEARISH"
                 /\ (s < 0 /\ f > 0) => sentiment.sentiment = "BOTTOM"
           /\ ~(spot_data.avail /\ futures_data.avail) => sentiment.sentiment = "UNKNOWN"
           /\ spot_data.avail =>
                 /\ sentiment.spot_net = s
                 /\ s > 0 => sentiment.spot_direction = "buy"
                 /\ s < 0 => sentiment.spot_direction = "sell"
           /\ futures_data.avail =>
                 /\ sentiment.futures_oi_change = f
                 /\ f > 0 => sentiment.futures_direction = "long"
                 /\ f < 0 => sentiment.futures_direction = "short"

\* Spot bought and open interest fell: the reading is HEDGE.
C14_Witness ==
    /\ sentPc = "done"
    /\ spot_data.avail /\ futures_data.avail
    /\ spot_data.value > 0 /\ futures_data.value < 0
    /\ sentiment.sentiment = "HEDGE"

\* C19: after a run that fetched a non-empty quote batch, stats holds exactly
\* one entry per executed stage in execution order; the first entry's input is
\* the number of quote rows fetched, each later entry's input is the previous
\* entry's output, and the last entry's output is the number of rows returned.
C19_StatsChain ==
    (pipePc = "done" /\ quotes # <<>>) =>
        /\ Len(stats) = Len(fed)
        /\ Len(stats) = stageIdx - 1
        /\ Len(stats) >= 1
        /\ \A i \in DOMAIN stats :
              /\ stats[i].step = screeners[i].step_number
              /\ stats[i].name = screeners[i].name
              /\ stats[i].input = Len(fed[i])
              /\ stats[i].output = Len(handed[i])
        /\ stats[1].input = Len(quotes)
        /\ \A i \in 1..(Len(stats) - 1) : stats[i + 1].input = stats[i].output
        /\ stats[Len(stats)].output = Len(runResult)

\* A finished run of several stages, one of which eliminated a row, that
\* returned rows.
C19_Witness ==
    /\ pipePc = "done"
    /\ Len(quotes) >= 2
    /\ Len(stats) >= 3
    /\ runResult # <<>>
    /\ \E i \in DOMAIN stats : stats[i].output < stats[i].input

\* C20: in every stage whose predicate needs price history (VolumeRatio,
\* MovingAverage, Pullback, VolumeShrink, RSIOversold), a row whose history is
\* empty or shorter than the stage's window is dropped: no such row appears in
\* the stage's output.
C20_InsufficientHistoryDrops ==
    stagePc = "done" =>
        \A i \in DOMAIN stageIn :
            stageOuts[i] = "nodata" =>
                \A j \in DOMAIN stageOut : stageOut[j].stock_id # stageIn[i].stock_id

\* C22: when a non-forced invocation is rejected by the weekday/time-window
\* gate, neither the bullish-pool scan nor the institutional scan is executed,
\* whichever of --pool, --inst or --all were given.
C22_GateStopsScanners ==
    screening.gate = "rejected" => effects \cap {"pool_scan", "inst_scan"} = {}

\* C26: on every invocation that runs the screener, the old date-named output
\* directories are purged before the pipeline's quote fetch and stages execute.
C26_PurgeBeforePipeline ==
    "pipeline" \in effects => "cleanup" \in effects

(***************************************************************************)
(* PullbackScreener.screen on one row with enough history                  *)
(* (src/src/screeners/filters.py).  The history enters through the moving  *)
(* averages it gives: each MA today, each long MA as it stood              *)
(* ma_slope_lookback_days ago, and the highest high of the last 20 days.   *)
(* Prices are integers.                                                    *)
(***************************************************************************)

\* config/settings.py: pullback_min_pct, pullback_max_pct, pullback_short_ma,
\* pullback_long_ma
pullback_min_pct == 3
pullback_max_pct == 20
pullback_short_ma == <<5, 10>>
pullback_long_ma == <<20, 60>>

\* The first period of the list that is among the hits, 0 when none is
\* (for period in periods: if ...: break).
FirstPeriod(periods, hits) ==
    LET at == {k \in DOMAIN periods : periods[k] \in hits}
    IN IF at = {} THEN 0
       ELSE periods[CHOOSE k \in at : \A j \in at : k <= j]

\* The body of the row loop of PullbackScreener.screen after the history check:
\* below a short MA, above a long MA (the first such is the support), and the
\* fall from the recent high within [min, max] percent.
PullbackRow(row) ==
    LET current_price == row.price
        below_short ==
            FirstPeriod(pullback_short_ma,
                        {p \in DOMAIN row.ma : current_price < row.ma[p]}) # 0
        support_ma ==
            FirstPeriod(pullback_long_ma,
                        {p \in DOMAIN row.ma : current_price > row.ma[p]})
        above_long == support_ma # 0
        proper_pullback ==
            /\ pullback_min_pct * row.recent_high <= (row.recent_high - current_price) * 100
            /\ (row.recent_high - current_price) * 100 <= pullback_max_pct * row.recent_high
    IN [is_valid |-> below_short /\ above_long /\ proper_pullback,
        support_ma |-> support_ma]

\* The rows tried: price 100, each MA below or above it, each long MA rising,
\* flat or falling, the recent high 1, 9 or 23 percent above the price.
PullbackRows ==
    [price : {100},
     ma : [{5, 10, 20, 60} -> {95, 105}],
     ma_before : [{20, 60} -> {94, 95, 105, 106}],
     recent_high : {101, 110, 130}]

NoPullback == [is_valid |-> FALSE, support_ma |-> 0]

\* PullbackScreener.screen deciding one row.
PullbackScreen ==
    /\ pbPc = "start"
    /\ pbResult' = PullbackRow(pbRow)
    /\ pbPc' = "done"
    /\ UNCHANGED pbRow

PullInit ==
    /\ pbRow \in PullbackRows
    /\ pbResult = NoPullback
    /\ pbPc = "start"

\* No row screened on its own.
PullIdle ==
    /\ pbRow = [price |-> 100, ma |-> [p \in {5, 10, 20, 60} |-> 95],
                ma_before |-> [p \in {20, 60} |-> 95], recent_high |-> 101]
    /\ pbResult = NoPullback
    /\ pbPc = "idle"

\* C21: PullbackScreener keeps a row only if, besides the three price
\* conditions, the long MA reported as support has positive slope over
\* slope_lookback days; a row whose supporting long MA is flat or falling is
\* dropped.
C21_PullbackSupportSlope ==
    (pbPc = "done" /\ pbResult.is_valid) =>
        /\ pbResult.support_ma \in {20, 60}
        /\ pbRow.ma[pbResult.support_ma] > pbRow.ma_before[pbResult.support_ma]

(***************************************************************************)
(* The month loop of DataFetcher._get_historical_from_twse                 *)
(* (src/src/data/fetcher.py): which calendar months one fallback request   *)
(* queries.  A date is [year, month, day] of the Gregorian calendar.       *)
(***************************************************************************)

IsLeap(y) == (y % 4 = 0 /\ y % 100 # 0) \/ y % 400 = 0

DaysInMonth(y, m) ==
    IF m = 2 THEN (IF IsLeap(y) THEN 29 ELSE 28)
    ELSE IF m \in {4, 6, 9, 11} THEN 30 ELSE 31

\* The calendar month before <<y, m>>.
PrevMonth(ym) == IF ym[2] = 1 THEN <<ym[1] - 1, 12>> ELSE <<ym[1], ym[2] - 1>>

\* date - timedelta(days=n)
RECURSIVE MinusDays(_, _)
MinusDays(date, n) ==
    IF n < date.day THEN [date EXCEPT !.day = date.day - n]
    ELSE LET pm == PrevMonth(<<date.year, date.month>>)
         IN MinusDays([year |-> pm[1], month |-> pm[2],
                       day |-> DaysInMonth(pm[1], pm[2])],
                      n - date.day)

\* for i in range(months_needed): target_date = now - timedelta(days=i * 30);
\* the (year, month) each monthly fetch is given.
TwseMonths(now_date, days) ==
    [k \in 1..months_needed(days) |->
        LET target_date == MinusDays(now_date, (k - 1) * 30)
        IN <<target_date.year, target_date.month>>]

\* The days arguments tried: the callers' 29, 70 and values around the
\* multiples of 20.
RequestDays == {1, 19, 20, 21, 29, 40, 41, 70}

\* Every day of a leap year and of the year after it.
NowDates ==
    {d \in [year : {2024, 2025}, month : 1..12, day : 1..31] :
        d.day <= DaysInMonth(d.year, d.month)}

\* _get_historical_from_twse running its month loop.
TwseMonthLoop ==
    /\ twPc = "start"
    /\ twMonths' = TwseMonths(twNow, twDays)
    /\ twPc' = "done"
    /\ UNCHANGED <<twNow, twDays>>

TwseInit ==
    /\ twNow \in NowDates
    /\ twDays \in RequestDays
    /\ twMonths = <<>>
    /\ twPc = "start"

\* No fallback request on its own.
TwseIdle ==
    /\ twNow = [year |-> 2024, month |-> 1, day |-> 1]
    /\ twDays = 1
    /\ twMonths = <<>>
    /\ twPc = "idle"

\* C27: for a fallback history request of `days` days, the number of monthly
\* queries equals ceil(days/20) + 1, for every days >= 1.
C27_FallbackQueryCount ==
    twPc = "done" => Len(twMonths) = ((twDays + 19) \div 20) + 1

\* C28: the monthly queries of one fallback request target pairwise distinct
\* calendar months forming a contiguous run going back from the current
\* month: none skipped, none queried twice.
C28_FallbackMonthCoverage ==
    twPc = "done" =>
        /\ twMonths[1] = <<twNow.year, twNow.month>>
        /\ \A k \in 1..(Len(twMonths) - 1) : twMonths[k + 1] = PrevMonth(twMonths[k])
        /\ \A j, k \in DOMAIN twMonths : j # k => twMonths[j] # twMonths[k]

(***************************************************************************)
(* DataFetcher.get_index_ma_status (src/src/data/fetcher.py).  The index   *)
(* history enters through the mean of its last `period` closes, in         *)
(* thousandths of a point; reported values are in hundredths.              *)
(***************************************************************************)

\* ma_periods (the default argument) and sorted(ma_periods)
ma_periods == <<5, 10, 20, 60>>
sorted_periods == <<5, 10, 20, 60>>

\* The dict of an index without enough history.
EmptyStatus ==
    [empty |-> TRUE, ma_values |-> [p \in Range(ma_periods) |-> 0],
     above_ma |-> [p \in Range(ma_periods) |-> FALSE], is_bullish |-> FALSE,
     broken_ma |-> {}]

\* is_bullish = True; for i in range(len(sorted_periods) - 1):
\*     if short_ma < long_ma: is_bullish = False; break
IsBullish(ma_values) ==
    \A k \in 1..(Len(sorted_periods) - 1) :
        ~(ma_values[sorted_periods[k]] < ma_values[sorted_periods[k + 1]])

\* get_index_ma_status with enough history: ma_values rounded to two places,
\* above_ma from the unrounded mean.
get_index_ma_status(current_price, mean) ==
    LET ma_values == [p \in Range(ma_periods) |-> RoundDiv(mean[p], 10)]
        above_ma == [p \in Range(ma_periods) |-> current_price >= mean[p]]
    IN [empty |-> FALSE, ma_values |-> ma_values, above_ma |-> above_ma,
        is_bullish |-> IsBullish(ma_values),
        broken_ma |-> {p \in Range(ma_periods) : ~above_ma[p]}]

\* The means tried, in thousandths: 1000 and 1004 round to the same hundredth.
IndexMeans == [Range(ma_periods) -> {1000, 1004, 1010}]

\* One call; the history is long enough or not, the last close is 1.004.
IndexStatus ==
    /\ idxPc = "start"
    /\ \E enough \in BOOLEAN :
         idxStatus' = IF enough THEN get_index_ma_status(1004, idxMean)
                      ELSE EmptyStatus
    /\ idxPc' = "done"
    /\ UNCHANGED idxMean

IdxInit ==
    /\ idxMean \in IndexMeans
    /\ idxStatus = EmptyStatus
    /\ idxPc = "start"

\* No index status asked on its own.
IdxIdle ==
    /\ idxMean = [p \in Range(ma_periods) |-> 1000]
    /\ idxStatus = EmptyStatus
    /\ idxPc = "idle"

\* C29: get_index_ma_status reports is_bullish = true if and only if, for
\* every pair of consecutive sorted periods among {5, 10, 20, 60},
\* MA[shorter] > MA[longer] strictly; two adjacent equal MAs give false.
C29_IndexBullishStrict ==
    (idxPc = "done" /\ ~idxStatus.empty) =>
        (idxStatus.is_bullish <=>
            \A k \in 1..(Len(sorted_periods) - 1) :
                idxStatus.ma_values[sorted_periods[k]]
                    > idxStatus.ma_values[sorted_periods[k + 1]])

(***************************************************************************)
(* InstitutionalTracker.update_tracking                                    *)
(* (src/src/institutional_tracker.py).  A daily record is kept by its      *)
(* date; analysis_results is the list of the stock_id of each result.      *)
(***************************************************************************)

MaxTrackDay == 2            \* days the model runs through
MaxTrackingDays == 31       \* tracking_days above which no further call is made

\* stock_hist["history"][-30:]
HistoryKeep == 30

\* What the scan may hand over: nothing, one result, the same id twice (the
\* quote list is a concatenation of two venues' lists and is not deduplicated),
\* a result without stock_id.
AnalysisLists == {<<>>, <<"2330">>, <<"2330", "2330">>, <<"", "2330">>}

\* The body of the loop for one result with a stock_id.
TrackOne(stocks_history, stock_id, day) ==
    LET stock_hist == IF stock_id \in DOMAIN stocks_history
                      THEN stocks_history[stock_id]
                      ELSE [first_tracked |-> day, tracking_days |-> 0,
                            last_update |-> day, history |-> <<>>]
    IN Put(stocks_history, stock_id,
           [first_tracked |-> stock_hist.first_tracked,
            tracking_days |-> stock_hist.tracking_days + 1,
            last_update |-> day,
            history |-> Tail_n(Append(stock_hist.history, [date |-> day]),
                               HistoryKeep)])

\* for result in analysis_results: if not stock_id: continue; ...
RECURSIVE TrackAll(_, _, _)
TrackAll(stocks_history, analysis_results, day) ==
    IF analysis_results = <<>> THEN stocks_history
    ELSE TrackAll(IF Head(analysis_results) = "" THEN stocks_history
                  ELSE TrackOne(stocks_history, Head(analysis_results), day),
                  Tail(analysis_results), day)

\* update_tracking(analysis_results), one whole call.
UpdateTracking ==
    /\ \A sid \in DOMAIN trackStocks : trackStocks[sid].tracking_days < MaxTrackingDays
    /\ \E analysis_results \in AnalysisLists :
         /\ trackStocks' = TrackAll(trackStocks, analysis_results, trackToday)
         /\ trackCall' = analysis_results
    /\ UNCHANGED trackToday

\* Midnight passes.
TrackNextDay ==
    /\ trackToday < MaxTrackDay
    /\ trackToday' = trackToday + 1
    /\ UNCHANGED <<trackStocks, trackCall>>

\* No institutional history file yet.
TrackInit ==
    /\ trackToday = 1
    /\ trackStocks = <<>>
    /\ trackCall = <<>>

\* The tracker of a specification that does not update it.
TrackIdle == TrackInit

\* C30: after any sequence of update_tracking calls every tracked id's history
\* holds at most 30 records, the most recent ones in append order;
\* tracking_days increases by exactly one per update that includes the id (so
\* tracking_days >= length of history); first_tracked never changes.
C30_TrackingHistoryBounds ==
    [][ \A sid \in DOMAIN trackStocks' :
          LET new == trackStocks'[sid]
              known == sid \in DOMAIN trackStocks
              updated == trackToday' = trackToday /\ sid \in Range(trackCall')
          IN /\ Len(new.history) <= HistoryKeep
             /\ new.tracking_days >= Len(new.history)
             /\ known => new.first_tracked = trackStocks[sid].first_tracked
             /\ updated =>
                   new.tracking_days
                     = (IF known THEN trackStocks[sid].tracking_days ELSE 0) + 1
             /\ (known /\ ~updated) => new = trackStocks[sid]
      ]_vars

(***************************************************************************)
(* Specifications.                                                         *)
(***************************************************************************)

InitHist == HistInit /\ PipeIdle /\ MainIdle /\ QuoteIdle /\ PoolIdle /\ SentIdle /\ StageIdle /\ PullIdle /\ TwseIdle /\ IdxIdle /\ TrackIdle
NextHist == GetHistoricalData /\ UNCHANGED <<pipeVars, mainVars, quoteVars, poolVars, sentVars, stageVars, pullVars, twseVars, idxVars, trackVars>>
SpecHist == InitHist /\ [][NextHist]_vars

InitPipe == HistIdle /\ PipeInit /\ MainIdle /\ QuoteIdle /\ PoolIdle /\ SentIdle /\ StageIdle /\ PullIdle /\ TwseIdle /\ IdxIdle /\ TrackIdle
NextPipe ==
    \/ RunFetch /\ UNCHANGED <<histVars, mainVars, quoteVars, poolVars, sentVars, stageVars, pullVars, twseVars, idxVars, trackVars>>
    \/ RunStage /\ UNCHANGED <<histVars, mainVars, quoteVars, poolVars, sentVars, stageVars, pullVars, twseVars, idxVars, trackVars>>
    \/ RunFinish /\ UNCHANGED <<histVars, mainVars, quoteVars, poolVars, sentVars, stageVars, pullVars, twseVars, idxVars, trackVars>>
SpecPipe == InitPipe /\ [][NextPipe]_vars

InitMain == HistIdle /\ PipeIdle /\ MainInit /\ QuoteIdle /\ PoolIdle /\ SentIdle /\ StageIdle /\ PullIdle /\ TwseIdle /\ IdxIdle /\ TrackIdle
NextMain ==
    \/ MainDispatch /\ UNCHANGED <<histVars, pipeVars, quoteVars, poolVars, sentVars, stageVars, pullVars, twseVars, idxVars, trackVars>>
    \/ ScreenerGate /\ UNCHANGED <<histVars, pipeVars, quoteVars, poolVars, sentVars, stageVars, pullVars, twseVars, idxVars, trackVars>>
    \/ ScreenerPipeline /\ UNCHANGED <<histVars, pipeVars, quoteVars, poolVars, sentVars, stageVars, pullVars, twseVars, idxVars, trackVars>>
    \/ ScreenerDisplay /\ UNCHANGED <<histVars, pipeVars, quoteVars, poolVars, sentVars, stageVars, pullVars, twseVars, idxVars, trackVars>>
    \/ ScreenerExport /\ UNCHANGED <<histVars, pipeVars, quoteVars, poolVars, sentVars, stageVars, pullVars, twseVars, idxVars, trackVars>>
    \/ ScreenerNotify /\ UNCHANGED <<histVars, pipeVars, quoteVars, poolVars, sentVars, stageVars, pullVars, twseVars, idxVars, trackVars>>
    \/ ScreenerPool /\ UNCHANGED <<histVars, pipeVars, quoteVars, poolVars, sentVars, stageVars, pullVars, twseVars, idxVars, trackVars>>
    \/ MainAfterScreener /\ UNCHANGED <<histVars, pipeVars, quoteVars, poolVars, sentVars, stageVars, pullVars, twseVars, idxVars, trackVars>>
    \/ MainPoolOnly /\ UNCHANGED <<histVars, pipeVars, quoteVars, poolVars, sentVars, stageVars, pullVars, twseVars, idxVars, trackVars>>
    \/ MainInstOnly /\ UNCHANGED <<histVars, pipeVars, quoteVars, poolVars, sentVars, stageVars, pullVars, twseVars, idxVars, trackVars>>
    \/ MainReturn /\ UNCHANGED <<histVars, pipeVars, quoteVars, poolVars, sentVars, stageVars, pullVars, twseVars, idxVars, trackVars>>
    \/ MainInterrupt /\ UNCHANGED <<histVars, pipeVars, quoteVars, poolVars, sentVars, stageVars, pullVars, twseVars, idxVars, trackVars>>
    \/ MainError /\ UNCHANGED <<histVars, pipeVars, quoteVars, poolVars, sentVars, stageVars, pullVars, twseVars, idxVars, trackVars>>

SpecMain == InitMain /\ [][NextMain]_vars

Init == InitPipe
Next == NextPipe
Spec == SpecPipe

InitQuote == HistIdle /\ PipeIdle /\ MainIdle /\ QuoteInit /\ PoolIdle /\ SentIdle /\ StageIdle /\ PullIdle /\ TwseIdle /\ IdxIdle /\ TrackIdle
NextQuote ==
    \/ FetchTwseIntraday /\ UNCHANGED <<histVars, pipeVars, mainVars, poolVars, sentVars, stageVars, pullVars, twseVars, idxVars, trackVars>>
    \/ FetchTwsePostClose /\ UNCHANGED <<histVars, pipeVars, mainVars, poolVars, sentVars, stageVars, pullVars, twseVars, idxVars, trackVars>>
    \/ FetchTpexIntraday /\ UNCHANGED <<histVars, pipeVars, mainVars, poolVars, sentVars, stageVars, pullVars, twseVars, idxVars, trackVars>>
    \/ FetchTpexPostClose /\ UNCHANGED <<histVars, pipeVars, mainVars, poolVars, sentVars, stageVars, pullVars, twseVars, idxVars, trackVars>>
    \/ QuoteReturn /\ UNCHANGED <<histVars, pipeVars, mainVars, poolVars, sentVars, stageVars, pullVars, twseVars, idxVars, trackVars>>
SpecQuote == InitQuote /\ [][NextQuote]_vars

InitPool == HistIdle /\ PipeIdle /\ MainIdle /\ QuoteIdle /\ PoolInit /\ SentIdle /\ StageIdle /\ PullIdle /\ TwseIdle /\ IdxIdle /\ TrackIdle
NextPool ==
    \/ UpdatePool /\ UNCHANGED <<histVars, pipeVars, mainVars, quoteVars, sentVars, stageVars, pullVars, twseVars, idxVars, trackVars>>
    \/ NextDay /\ UNCHANGED <<histVars, pipeVars, mainVars, quoteVars, sentVars, stageVars, pullVars, twseVars, idxVars, trackVars>>
SpecPool == InitPool /\ [][NextPool]_vars

InitSent == HistIdle /\ PipeIdle /\ MainIdle /\ QuoteIdle /\ PoolIdle /\ SentInit /\ StageIdle /\ PullIdle /\ TwseIdle /\ IdxIdle /\ TrackIdle
NextSent == Analyze /\ UNCHANGED <<histVars, pipeVars, mainVars, quoteVars, poolVars, stageVars, pullVars, twseVars, idxVars, trackVars>>
SpecSent == InitSent /\ [][NextSent]_vars


\* One history-reading screener called once.
InitStage == HistIdle /\ PipeIdle /\ MainIdle /\ QuoteIdle /\ PoolIdle /\ SentIdle /\ StageInit /\ PullIdle /\ TwseIdle /\ IdxIdle /\ TrackIdle
NextStage == ScreenStage /\ UNCHANGED <<histVars, pipeVars, mainVars, quoteVars, poolVars, sentVars, pullVars, twseVars, idxVars, trackVars>>
SpecStage == InitStage /\ [][NextStage]_vars


\* PullbackScreener deciding one row.
InitPull == HistIdle /\ PipeIdle /\ MainIdle /\ QuoteIdle /\ PoolIdle /\ SentIdle /\ StageIdle /\ PullInit /\ TwseIdle /\ IdxIdle /\ TrackIdle
NextPull == PullbackScreen /\ UNCHANGED <<histVars, pipeVars, mainVars, quoteVars, poolVars, sentVars, stageVars, twseVars, idxVars, trackVars>>
SpecPull == InitPull /\ [][NextPull]_vars


\* One fallback history request, its month loop.
InitTwse == HistIdle /\ PipeIdle /\ MainIdle /\ QuoteIdle /\ PoolIdle /\ SentIdle /\ StageIdle /\ PullIdle /\ TwseInit /\ IdxIdle /\ TrackIdle
NextTwse == TwseMonthLoop /\ UNCHANGED <<histVars, pipeVars, mainVars, quoteVars, poolVars, sentVars, stageVars, pullVars, idxVars, trackVars>>
SpecTwse == InitTwse /\ [][NextTwse]_vars


\* One get_index_ma_status call.
InitIdx == HistIdle /\ PipeIdle /\ MainIdle /\ QuoteIdle /\ PoolIdle /\ SentIdle /\ StageIdle /\ PullIdle /\ TwseIdle /\ IdxInit /\ TrackIdle
NextIdx == IndexStatus /\ UNCHANGED <<histVars, pipeVars, mainVars, quoteVars, poolVars, sentVars, stageVars, pullVars, twseVars, trackVars>>
SpecIdx == InitIdx /\ [][NextIdx]_vars


\* The institutional tracker over some days.
InitTrack == HistIdle /\ PipeIdle /\ MainIdle /\ QuoteIdle /\ PoolIdle /\ SentIdle /\ StageIdle /\ PullIdle /\ TwseIdle /\ IdxIdle /\ TrackInit
NextTrack ==
    \/ UpdateTracking /\ UNCHANGED <<histVars, pipeVars, mainVars, quoteVars, poolVars, sentVars, stageVars, pullVars, twseVars, idxVars>>
    \/ TrackNextDay /\ UNCHANGED <<histVars, pipeVars, mainVars, quoteVars, poolVars, sentVars, stageVars, pullVars, twseVars, idxVars>>
SpecTrack == InitTrack /\ [][NextTrack]_vars

====
